---- MODULE Spec2Model ----
(***************************************************************************)
(* Model of gutenberg.py: the catalog refresh (update_catalog), the two    *)
(* synchronization entry points (Gutenberg.download, Gutenberg.update),    *)
(* the download orchestrator (download_keys over a worker pool running     *)
(* try_download) and the SQLite store they share.                          *)
(*                                                                         *)
(* The store is modelled twice: `disk` is what is committed in the         *)
(* database file, `conn` is what the open connection sees (the committed   *)
(* rows plus the writes of its pending transaction).                       *)
(*                                                                         *)
(* The functions that take no store and no network (remove_boilerplate,    *)
(* make_book_url, extract_download_infos) also have a specification each,  *)
(* in which the function is run on every input of a bounded set.           *)
(*                                                                         *)
(* Strings that the code only compares are atoms; strings that the code    *)
(* transforms (search queries, catalog text fields) are sequences of code  *)
(* points.  Timestamps are day numbers: the 'YYYY-MM-DD HH:MM:SS' strings  *)
(* of the code compare as the instants they denote; the empty string '',   *)
(* which sorts before every timestamp, is 0.                               *)
(***************************************************************************)
EXTENDS Integers, Sequences, FiniteSets, TLC

VARIABLES
  disk,      \* committed contents of the database file
  conn,      \* contents as seen through self.conn (committed + pending)
  pc,        \* "closed": no Gutenberg object; "idle": between calls;
             \* "batch": inside download_keys
  now,       \* wall clock, datetime('now')
  archive,   \* index of the catalog archive currently published
  env,       \* the environment: mirror list, pool size, what servers answer
  keys,      \* download_keys: the task list
  taken,     \* download_keys: number of tasks handed to pool workers
  running,   \* pool workers inside try_download: records [idx, tries, used]
             \* (the task, the retries made, the mirrors tried)
  outq,      \* results finished by workers, not yet consumed by the loop,
             \* each with a note of the task and of the fetch that ended it
  i,         \* download_keys: results consumed so far
  nr,        \* download_keys: successful results so far
  calls,     \* number of calls of forget, download and update so far
  hist,      \* history of the calls, for stating properties only
  call       \* the run of one function on one input, in the specifications
             \* of the functions that take no store and no network

vars == <<disk, conn, pc, now, archive, env, keys, taken, running, outq,
          i, nr, calls, hist, call>>

----------------------------------------------------------------------------
\* Bounds of the model

\* the last day of a behaviour (the first is day 1)
MaxNow == 3

\* the calls of forget, download and update a behaviour makes
MaxCalls == 3

\* the calls a behaviour makes with the pool of two workers
PoolCalls == 1

\* the calls a behaviour makes over the catalog of BigBooks books
BigCalls == 2

\* the books of the large catalog
BigBooks == 11

\* timedelta(1) of get_last_modified and '-1 day' of update, in clock units
\* number of lines of a text given to the boilerplate stripper
TextLen == 625

\* most marker lines in one text
MaxMarks == 3

\* largest book id given to make_book_url, besides 11716
MaxKey == 120

\* most pgterms:file elements in a record given to extract_download_infos
MaxFiles == 3

\* the calls of a process, with the catalog that needs the decoding fallback
DecodeCalls == 2

\* the longest string normalize is run on
FoldLen == 3

OneDay == 1

EmptyStr == 0

----------------------------------------------------------------------------
\* Generic helpers

Range(s) == {s[n] : n \in 1..Len(s)}

RECURSIVE Concat(_)
Concat(ss) == IF ss = <<>> THEN <<>> ELSE Head(ss) \o Concat(Tail(ss))

RECURSIVE JoinWith(_, _)
JoinWith(sep, ss) ==
  IF ss = <<>> THEN <<>>
  ELSE IF Len(ss) = 1 THEN Head(ss)
  ELSE Head(ss) \o sep \o JoinWith(sep, Tail(ss))

\* all orderings of a finite set, as sequences without repetition
Perms(S) ==
  {s \in [1..Cardinality(S) -> S] : \A a, b \in 1..Cardinality(S) :
                                       a # b => s[a] # s[b]}

----------------------------------------------------------------------------
\* Text.  A string is a sequence of code points.

SPACE == 32
NBSP == 160
WhiteSpace == {9, 10, 13, SPACE, NBSP}
AsciiUpper == 65..90

\* str(key): the decimal digits of a non-negative integer
RECURSIVE Digits(_)
Digits(n) == IF n < 10 THEN <<n>> ELSE Append(Digits(n \div 10), n % 10)

Str(n) == [d \in 1..Len(Digits(n)) |-> 48 + Digits(n)[d]]

\* the integer a digit string denotes (SQLite's numeric affinity on a join)
RECURSIVE ParseInt(_)
ParseInt(s) ==
  IF s = <<>> THEN 0 ELSE 10 * ParseInt(SubSeq(s, 1, Len(s) - 1)) + (s[Len(s)] - 48)

\* the compatibility mapping of NFKC, on the code points the model uses
NfkcChar(c) == IF c = NBSP THEN <<SPACE>> ELSE <<c>>

\* U+0301, the combining acute accent
COMBINING_ACUTE == 769

\* the canonical composition of NFKC: a letter and the accent that follows it
\* become the accented letter when Unicode has one (E acute, e acute; there
\* is no accented oe, ae or s)
RECURSIVE Compose(_)
Compose(s) ==
  IF Len(s) < 2 THEN s
  ELSE IF s[2] = COMBINING_ACUTE /\ s[1] \in {69, 101}
       THEN <<IF s[1] = 69 THEN 201 ELSE 233>> \o Compose(SubSeq(s, 3, Len(s)))
       ELSE <<s[1]>> \o Compose(Tail(s))

\* unicodedata.normalize("NFKC", s)
Nfkc(s) == Compose(Concat([n \in 1..Len(s) |-> NfkcChar(s[n])]))

\* str.casefold() of one code point
CaseFoldChar(c) ==
  CASE c \in AsciiUpper -> <<c + 32>>
    [] c = 201 -> <<233>>        \* E acute
    [] c = 338 -> <<339>>        \* OE ligature
    [] c = 198 -> <<230>>        \* AE ligature
    [] c = 223 -> <<115, 115>>   \* sharp s
    [] OTHER -> <<c>>

\* LIGATURES_TBL
LigatureChar(c) ==
  CASE c = 339 -> <<111, 101>>
    [] c = 230 -> <<97, 101>>
    [] OTHER -> <<c>>

\* s.split(): the maximal runs of non-whitespace
RECURSIVE Split(_, _, _)
Split(s, word, acc) ==
  IF s = <<>> THEN (IF word = <<>> THEN acc ELSE Append(acc, word))
  ELSE IF Head(s) \in WhiteSpace
       THEN Split(Tail(s), <<>>, IF word = <<>> THEN acc ELSE Append(acc, word))
       ELSE Split(Tail(s), Append(word, Head(s)), acc)

normalize(s) ==
  LET s1 == Nfkc(s)
      s2 == JoinWith(<<SPACE>>, Split(s1, <<>>, <<>>))
      s3 == Concat([n \in 1..Len(s2) |->
                      IF s2[n] \in AsciiUpper THEN <<s2[n]>> ELSE CaseFoldChar(s2[n])])
  IN  Concat([n \in 1..Len(s3) |-> LigatureChar(s3[n])])

\* make_document: every field becomes the normalized values joined by a space
FieldDoc(values) ==
  JoinWith(<<SPACE>>, [n \in 1..Len(values) |-> normalize(values[n])])

make_document(fields) ==
  [key      |-> FieldDoc(<<Str(fields.key)>>),
   language |-> FieldDoc(fields.language),
   author   |-> FieldDoc(fields.author),
   title    |-> FieldDoc(fields.title),
   subject  |-> FieldDoc(fields.subject)]

\* The fts3 "simple" tokenizer: terms are separated by non-alphanumeric ASCII
\* (here: spaces) and ASCII letters are folded to lower case.
Tokens(s) ==
  LET ws == Split(s, <<>>, <<>>)
  IN  {[n \in 1..Len(w) |-> IF w[n] \in AsciiUpper THEN w[n] + 32 ELSE w[n]] :
         w \in Range(ws)}

RowTokens(row) ==
  Tokens(row.key) \cup Tokens(row.language) \cup Tokens(row.author)
    \cup Tokens(row.title) \cup Tokens(row.subject)

\* Search MATCH query: every term of the query occurs in some column of the row
Match(row, query) == Tokens(query) # {} /\ Tokens(query) \subseteq RowTokens(row)

----------------------------------------------------------------------------
\* The boilerplate stripper.  Of the marker sets, the literals that the lines
\* below start with.

TEXT_START_MARKERS == {"*** START OF THE PROJECT GUTENBERG", "The Project Gutenberg"}

TEXT_END_MARKERS == {"*** END OF THE PROJECT GUTENBERG", "The Project Gutenberg Etext of "}

LEGALESE_START_MARKERS == {"<<THIS ELECTRONIC VERSION OF"}

LEGALESE_END_MARKERS == {"SERVICE THAT CHARGES FOR DOWNLOAD"}

\* the lines texts are made of
PlainLine == "Call me Ishmael."
BlankLine == ""
StartLine == "*** START OF THE PROJECT GUTENBERG EBOOK MOBY DICK ***"
EndLine == "*** END OF THE PROJECT GUTENBERG EBOOK MOBY DICK ***"
EtextLine == "The Project Gutenberg Etext of Moby Dick"
LegaleseStartLine == "<<THIS ELECTRONIC VERSION OF MOBY DICK"
LegaleseEndLine == "SERVICE THAT CHARGES FOR DOWNLOAD TIME OR FOR MEMBERSHIP.>>"

MarkerLines == {StartLine, EndLine, EtextLine, LegaleseStartLine, LegaleseEndLine}

\* line.startswith(token), for the lines above and the literals of the sets
startswith(line, token) ==
  token \in CASE line = StartLine -> {"*** START OF THE PROJECT GUTENBERG"}
             [] line = EndLine -> {"*** END OF THE PROJECT GUTENBERG"}
             [] line = EtextLine -> {"The Project Gutenberg",
                                     "The Project Gutenberg Etext of "}
             [] line = LegaleseStartLine -> {"<<THIS ELECTRONIC VERSION OF"}
             [] line = LegaleseEndLine -> {"SERVICE THAT CHARGES FOR DOWNLOAD"}
             [] OTHER -> {}

\* any(line.startswith(token) for token in markers)
StartsAny(line, markers) == \E token \in markers : startswith(line, token)

\* A text, as text.splitlines() returns it: TextLen lines, plain but for the
\* marker lines it has (a function from their line numbers) and for the blank
\* lines around the places where a marker line can stand
MarkPos == {10, 30, 150, 620}

BlankPos == {11, 31, 149, 151, 621}

Texts ==
  UNION {[D -> MarkerLines] : D \in {D \in SUBSET MarkPos : Cardinality(D) <= MaxMarks}}

LineOf(text, n) ==
  IF n \in DOMAIN text THEN text[n]
  ELSE IF n \in BlankPos THEN BlankLine ELSE PlainLine

\* the two windows of remove_boilerplate
HeaderWindow == 600
FooterWindow == 100

\* the header ends here, with a window of ten lines
header_ends_Early(n, line) == n <= 10 /\ StartsAny(line, TEXT_START_MARKERS)

\* the header ends here, with a window that closes where the footer's opens
header_ends_Narrow(n, line) == n < FooterWindow /\ StartsAny(line, TEXT_START_MARKERS)

\* `if i <= 600:` the header ends here
header_ends(n, line) == n <= HeaderWindow /\ StartsAny(line, TEXT_START_MARKERS)

\* the footer begins here, with a window that opens at 200 lines
footer_begins_Late(n, line) == n >= 200 /\ StartsAny(line, TEXT_END_MARKERS)

\* the footer begins here, whatever the number of lines counted
footer_begins_NoWindow(n, line) == StartsAny(line, TEXT_END_MARKERS)

\* `if i >= 100:` the footer begins here
footer_begins(n, line) == n >= FooterWindow /\ StartsAny(line, TEXT_END_MARKERS)

\* the legalese starts here
legalese_starts(line) == StartsAny(line, LEGALESE_START_MARKERS)

\* the legalese ends here, never
legalese_ends_Never(line) == FALSE

\* the legalese ends here
legalese_ends(line) == StartsAny(line, LEGALESE_END_MARKERS)

\* "\n".join(out).strip(): the lines of out without the blank lines at its
\* start and at its end (a line of out is kept as its number in the text)
join_strip(text, out) ==
  LET inked == {k \in 1..Len(out) : LineOf(text, out[k]) # BlankLine}
  IN  IF inked = {} THEN <<>>
      ELSE SubSeq(out, CHOOSE k \in inked : \A j \in inked : k <= j,
                       CHOOSE k \in inked : \A j \in inked : k >= j)

----------------------------------------------------------------------------
\* The published catalog archives (rdf-files.tar.bz2).  A member of the tar
\* stream is the directory it lies in and what parse_xml makes of its file:
\*   "book"   a record with a plain text rendition,
\*   "notext" a record without one (parse_xml returns None),
\*   "bad"    a file without exactly one pgterms:ebook element (find_node
\*            fails its assertion).


TitleA == <<<<97>>>>                       \* "a"
TitleB == <<<<98>>>>                       \* "b"
TitleAB == <<<<97, NBSP, 98>>, <<201>>>>   \* "a<nbsp>b", "E acute"

\* File names (Metadata.name): "<key><suffix>" such as 11716-8.txt, or a legacy
\* "etextNN/<file>" such as etext96/zncli10.txt
BookFile(key, suffix) == [dir |-> "", stem |-> key, file |-> suffix]
LegacyFile(dir, file) == [dir |-> dir, stem |-> 0, file |-> file]
NoFile == [dir |-> "", stem |-> 0, file |-> ""]

Legacy == LegacyFile("etext96", "zncli10.txt")

\* A pgterms:file element of a record: the values of its dcterms:format, its
\* rdf:about url and its dcterms:modified.  A mime type is its type and the
\* charset it declares ("" for none); of a url the last two components are
\* kept: the directory, and the file name as the number it starts with (0 for
\* none) and the rest.
Mime(type, charset) == [type |-> type, charset |-> charset]

Url(dir, stem, file) == [dir |-> dir, stem |-> stem, file |-> file]

File(formats, url, modified) == [formats |-> formats, url |-> url, modified |-> modified]

\* the directory of the files of a book, http://www.gutenberg.org/files/<id>
FilesDir == "files/<id>"

\* the renditions the site derives from a book: the ZIP archive, that has two
\* format values, and <id>.txt.utf-8
ZipFile(key) ==
  File(<<Mime("application/zip", ""), Mime("text/plain", "us-ascii")>>,
       Url(FilesDir, key, ".zip"), 1)

AutoUtf8File(key) ==
  File(<<Mime("text/plain", "utf-8")>>, Url(FilesDir, key, ".txt.utf-8"), 1)

\* the file entry of a plain text rendition of the given name
TextFile(name, enc, lm) ==
  File(<<Mime("text/plain", enc)>>,
       IF name.dir = "" THEN Url(FilesDir, name.stem, name.file)
       ELSE Url(name.dir, 0, name.file),
       lm)

Member(digit, key, kind, name, enc, lm, title) ==
  [digit |-> digit, key |-> key, kind |-> kind,
   files |-> CASE kind = "book" -> <<TextFile(name, enc, lm)>>
               [] kind = "notext" -> <<ZipFile(key), AutoUtf8File(key)>>
               [] OTHER -> <<>>,
   author |-> <<>>, title |-> title, language |-> <<<<101, 110>>>>, subject |-> <<>>]

\* the editions of the catalog, in the order they are published
Catalogs ==
  << \* 1: the first edition
     << Member(TRUE, 1, "book", BookFile(1, ".txt"), "utf-8", 1, TitleA),
        Member(FALSE, 0, "book", BookFile(0, ".txt"), "utf-8", 1, TitleA),
        Member(TRUE, 2, "book", Legacy, "us-ascii", 1, TitleB),
        Member(TRUE, 3, "notext", NoFile, "", 0, TitleA) >>,
     \* 2: an edition with a record of two ebook elements
     << Member(TRUE, 1, "book", BookFile(1, "-0.txt"), "utf-8", 2, TitleA),
        Member(TRUE, 2, "bad", NoFile, "", 0, TitleB) >>,
     \* 3: book 1 emended, the legacy file moved from book 2 to book 3
     << Member(TRUE, 1, "book", BookFile(1, "-0.txt"), "utf-8", 2, TitleA),
        Member(TRUE, 2, "book", BookFile(2, ".txt"), "iso-8859-1", 1, TitleB),
        Member(TRUE, 3, "book", Legacy, "us-ascii", 1, TitleAB) >>,
     \* 4: a catalog of BigBooks books, for batches longer than ten results
     [k \in 1..BigBooks |-> Member(TRUE, k, "book", BookFile(k, ".txt"), "utf-8", 1, TitleA)],
     \* 5: as 3, and book 1 retitled
     << Member(TRUE, 1, "book", BookFile(1, "-0.txt"), "utf-8", 2, TitleB),
        Member(TRUE, 2, "book", BookFile(2, ".txt"), "iso-8859-1", 1, TitleB),
        Member(TRUE, 3, "book", Legacy, "us-ascii", 1, TitleAB) >>,
     \* 6: a book declared as ASCII, and a book whose charset is a label that
     \* is not the name of a codec
     << Member(TRUE, 1, "book", BookFile(1, ".txt"), "us-ascii", 1, TitleA),
        Member(TRUE, 2, "book", BookFile(2, ".txt"), "x-other", 1, TitleA) >> >>

\* os.path.splitext(url)[1].lower(), on the file names the model uses
splitext_lower(url) ==
  CASE url.file \in {".txt", "-0.txt", "-8.txt", "zncli10.txt", "test.txt"} -> ".txt"
    [] url.file = ".TXT" -> ".txt"
    [] url.file = ".txt.utf-8" -> ".utf-8"
    [] url.file = ".zip" -> ".zip"
    [] OTHER -> ""

\* dir.startswith("etext")
EtextDir(dir) == dir \in {"etext96", "etext05"}

\* re.match(r"^%d(-(\d|txt|u|body|utf-16|utf-8))?.txt$" % key, name)
NameMatches(key, url) ==
  url.stem = key /\ url.file \in {".txt", "-0.txt", "-8.txt"}

\* the encoding of a mime type: its charset, "utf-8" when it declares none
EncodingOf(mime) == IF mime.charset # "" THEN mime.charset ELSE "utf-8"

\* find_versions keeps the entry
Kept(file, key) ==
  /\ Len(file.formats) = 1
  /\ file.formats[1].type = "text/plain"
  /\ splitext_lower(file.url) = ".txt"
  /\ EtextDir(file.url.dir) \/ NameMatches(key, file.url)

\* files[url] = (encoding, last_mod), if last_mod > prev_mod: the dict as the
\* sequence of its items, in the order the urls were first inserted
PutVersion(acc, v) ==
  IF \E k \in 1..Len(acc) : acc[k].url = v.url
  THEN [k \in 1..Len(acc) |->
          IF acc[k].url = v.url /\ v.last_mod > acc[k].last_mod THEN v ELSE acc[k]]
  ELSE Append(acc, v)

\* find_versions, from entry n on: the items (url, encoding, last_mod)
RECURSIVE find_versions(_, _, _, _)
find_versions(files, key, n, acc) ==
  IF n > Len(files) THEN acc
  ELSE IF ~Kept(files[n], key) THEN find_versions(files, key, n + 1, acc)
  ELSE find_versions(files, key, n + 1,
         PutVersion(acc, [url |-> files[n].url,
                          encoding |-> EncodingOf(files[n].formats[1]),
                          last_mod |-> files[n].modified]))

\* files.sort(key=lambda x: x[2], reverse=True): most recent first, the items
\* of one date in the order they had
RECURSIVE SortRecent(_)
SortRecent(vs) ==
  IF vs = <<>> THEN <<>>
  ELSE LET k == CHOOSE k \in 1..Len(vs) :
                  /\ \A j \in 1..Len(vs) : vs[j].last_mod <= vs[k].last_mod
                  /\ \A j \in 1..(k - 1) : vs[j].last_mod < vs[k].last_mod
       IN  <<vs[k]>> \o SortRecent(SubSeq(vs, 1, k - 1) \o SubSeq(vs, k + 1, Len(vs)))

\* the keys of encs, in the order setdefault inserted them
RECURSIVE EncKeys(_, _)
EncKeys(vs, acc) ==
  IF vs = <<>> THEN acc
  ELSE EncKeys(Tail(vs),
               IF Head(vs).encoding \in Range(acc) THEN acc
               ELSE Append(acc, Head(vs).encoding))

\* encs[enc][0]
FirstOf(vs, enc) == vs[CHOOSE k \in 1..Len(vs) :
                         /\ vs[k].encoding = enc
                         /\ \A j \in 1..(k - 1) : vs[j].encoding # enc]

\* the constant part of a url: "etextNN/<file>", or the file name
NameOf(url) ==
  IF EtextDir(url.dir) THEN LegacyFile(url.dir, url.file)
  ELSE BookFile(url.stem, url.file)

NoTarget == [name |-> NoFile, encoding |-> "", last_modified |-> -1]

\* `del encs["us-ascii"]`, when there is another encoding
Remaining(all) ==
  IF Len(all) > 1 THEN SelectSeq(all, LAMBDA e : e # "us-ascii") ELSE all

\* the encoding taken: "utf-8", or the key popitem() returns, the one
\* inserted last
Choice(encs) == IF "utf-8" \in Range(encs) THEN "utf-8" ELSE encs[Len(encs)]

\* (name, enc, last_mod) of an item
Target(v, enc) ==
  [name |-> NameOf(v.url), encoding |-> enc, last_modified |-> v.last_mod]

\* the choice of extract_download_infos among the sorted items, or all None
Selected(vs, enc) ==
  IF vs = <<>> THEN NoTarget ELSE Target(FirstOf(vs, enc), enc)

\* extract_download_infos that does not look at the encodings
extract_download_infos_First(files, key) ==
  Selected(SortRecent(find_versions(files, key, 1, <<>>)),
           IF find_versions(files, key, 1, <<>>) = <<>> THEN ""
           ELSE SortRecent(find_versions(files, key, 1, <<>>))[1].encoding)

\* extract_download_infos
extract_download_infos(files, key) ==
  Selected(SortRecent(find_versions(files, key, 1, <<>>)),
           Choice(Remaining(EncKeys(SortRecent(find_versions(files, key, 1, <<>>)), <<>>))))

\* the result of parse_xml on a record with the download target d: (name,
\* enc, last_mod, fields), or all None
Parsed(m, d, found) ==
  [found |-> found, name |-> d.name, encoding |-> d.encoding,
   last_modified |-> d.last_modified,
   fields |-> [author |-> m.author, title |-> m.title,
               language |-> m.language, subject |-> m.subject]]

\* `if name is None`
NoName(d) == d.name = NoFile

\* parse_xml that takes every record
parse_xml_KeepAll(m) ==
  Parsed(m, extract_download_infos(m.files, m.key), TRUE)

\* parse_xml
parse_xml(m) ==
  Parsed(m, extract_download_infos(m.files, m.key),
         ~NoName(extract_download_infos(m.files, m.key)))

----------------------------------------------------------------------------
\* The store (SCHEMA).  A table is the set of its rows.

EmptyDb ==
  [Infos |-> {}, DownloadQueries |-> {}, Metadata |-> {}, Search |-> {}, Data |-> {}]

LAST_CATALOG_UPDATE == "last_catalog_update"

\* INSERT: fails (IntegrityError) on a PRIMARY KEY or UNIQUE conflict
MetadataConflict(db, row) ==
  \E r \in db.Metadata : r.key = row.key \/ r.name = row.name

\* INSERT OR REPLACE INTO Infos / DownloadQueries / Data: the rows in conflict
\* on the primary key or on a UNIQUE column are deleted, then the row is added
ReplaceInfo(db, key, value) ==
  [db EXCEPT !.Infos = {r \in @ : r.key # key} \cup {[key |-> key, value |-> value]}]

ReplaceQuery(db, query, when) ==
  [db EXCEPT !.DownloadQueries =
     {r \in @ : r.query # query} \cup {[query |-> query, last_issued |-> when]}]

ReplaceData(db, row) ==
  [db EXCEPT !.Data = {r \in @ : r.key # row.key /\ r.url # row.url} \cup {row}]

RECURSIVE ingest(_, _, _, _)

\* the body of the loop of update_catalog for the record m, parsed as p
RECURSIVE ingest_record(_, _, _, _, _, _)
ingest_record(db, tar, n, fail, m, p) ==
  LET fields == [key |-> m.key, author |-> p.fields.author, title |-> p.fields.title,
                 language |-> p.fields.language, subject |-> p.fields.subject]
      row == [key |-> m.key, metadata |-> fields, name |-> p.name,
              encoding |-> p.encoding, last_modified |-> p.last_modified]
  IN  IF ~p.found THEN ingest(db, tar, n + 1, fail)
      ELSE IF MetadataConflict(db, row) THEN [db |-> db, ok |-> FALSE]
      ELSE ingest([db EXCEPT !.Metadata = @ \cup {row},
                             !.Search = @ \cup {make_document(fields)}],
                  tar, n + 1, fail)

\* the loop of update_catalog over iter_catalog, from member n on.  `fail` is
\* the member whose read raises (urlopen or tarfile.open failing is a failure
\* at member 1, a truncated stream a failure further on); 0 is a sound archive.
ingest(db, tar, n, fail) ==
  IF n = fail THEN [db |-> db, ok |-> FALSE]
  ELSE IF n > Len(tar) THEN [db |-> db, ok |-> TRUE]
  ELSE IF ~tar[n].digit THEN ingest(db, tar, n + 1, fail)
  ELSE IF tar[n].kind = "bad" THEN [db |-> db, ok |-> FALSE]
  ELSE ingest_record(db, tar, n, fail, tar[n], parse_xml(tar[n]))

\* update_catalog whose script deletes the rows of Metadata only
update_catalog_KeepSearch(db, tar, fail, when) ==
  LET emptied == [db EXCEPT !.Metadata = {}]
      loop == ingest(emptied, tar, 1, fail)
      final == ReplaceInfo(loop.db, LAST_CATALOG_UPDATE, when)
  IN  IF loop.ok THEN [ok |-> TRUE, disk |-> final, conn |-> final]
      ELSE [ok |-> FALSE, disk |-> emptied, conn |-> loop.db]

\* update_catalog without its final commit
update_catalog_NoCommit(db, tar, fail, when) ==
  LET emptied == [db EXCEPT !.Metadata = {}, !.Search = {}]
      loop == ingest(emptied, tar, 1, fail)
      final == ReplaceInfo(loop.db, LAST_CATALOG_UPDATE, when)
  IN  IF loop.ok THEN [ok |-> TRUE, disk |-> emptied, conn |-> final]
      ELSE [ok |-> FALSE, disk |-> emptied, conn |-> loop.db]

\* update_catalog on a connection seeing `db`; the result is what is committed
\* and what the connection sees when it returns (ok) or raises (~ok).
\* executescript first commits the pending transaction, then runs the two
\* DELETEs outside any transaction: they are committed as they execute.
update_catalog(db, tar, fail, when) ==
  LET emptied == [db EXCEPT !.Metadata = {}, !.Search = {}]
      loop == ingest(emptied, tar, 1, fail)
      final == ReplaceInfo(loop.db, LAST_CATALOG_UPDATE, when)
  IN  IF loop.ok THEN [ok |-> TRUE, disk |-> final, conn |-> final]
      ELSE [ok |-> FALSE, disk |-> emptied, conn |-> loop.db]

FailPoints(tar) == 0..(Len(tar) + 1)

----------------------------------------------------------------------------
\* SQL values and the two selections of the synchronization engine

\* NULL / None, one per type of value
Null == -1
NullUrl == [mirror |-> "", shard |-> <<>>, name |-> NoFile]
NullText == [body |-> "", encoding |-> ""]
NoEncoding == ""

COALESCE(x, y) == IF x = Null THEN y ELSE x

NullData ==
  [key |-> Null, contents |-> NullText, url |-> NullUrl, last_modified |-> Null,
   when_downloaded |-> Null]

\* Metadata LEFT OUTER JOIN Data ON Metadata.key = Data.key
LeftJoinData(db, m) ==
  IF \E d \in db.Data : d.key = m.key
  THEN {d \in db.Data : d.key = m.key}
  ELSE {NullData}

Task(m, downloaded) ==
  [key |-> m.key, name |-> m.name, encoding |-> m.encoding,
   last_modified |-> m.last_modified, downloaded |-> downloaded]

\* SelectDownload with `>=` for `>`
SelectDownload_NotStrict(db, query) ==
  {t \in db.Search \X db.Metadata \X (db.Data \cup {NullData}) :
     /\ ParseInt(t[1].key) = t[2].key
     /\ t[3] \in LeftJoinData(db, t[2])
     /\ Match(t[1], query)
     /\ t[2].last_modified >= COALESCE(t[3].last_modified, EmptyStr)}

\* the SELECT of Gutenberg.download: the joined rows <<Search, Metadata, Data>>
SelectDownload(db, query) ==
  {t \in db.Search \X db.Metadata \X (db.Data \cup {NullData}) :
     /\ ParseInt(t[1].key) = t[2].key
     /\ t[3] \in LeftJoinData(db, t[2])
     /\ Match(t[1], query)
     /\ t[2].last_modified > COALESCE(t[3].last_modified, EmptyStr)}

\* SelectUpdate without its second SELECT
SelectUpdate_QueriesOnly(db) ==
  {Task(t[2], COALESCE(t[4].when_downloaded, EmptyStr)) :
     t \in {t \in db.Search \X db.Metadata \X db.DownloadQueries
                    \X (db.Data \cup {NullData}) :
              /\ ParseInt(t[1].key) = t[2].key
              /\ t[4] \in LeftJoinData(db, t[2])
              /\ Match(t[1], t[3].query)
              /\ t[2].last_modified > COALESCE(t[4].last_modified, EmptyStr)}}

\* SelectUpdate whose first SELECT has '' for its last column
SelectUpdate_BlankFirst(db) ==
  {Task(t[2], EmptyStr) :
     t \in {t \in db.Search \X db.Metadata \X db.DownloadQueries
                    \X (db.Data \cup {NullData}) :
              /\ ParseInt(t[1].key) = t[2].key
              /\ t[4] \in LeftJoinData(db, t[2])
              /\ Match(t[1], t[3].query)
              /\ t[2].last_modified > COALESCE(t[4].last_modified, EmptyStr)}}
  \cup
  {Task(t[1], t[2].when_downloaded) :
     t \in {t \in db.Metadata \X db.Data :
              /\ t[1].key = t[2].key
              /\ t[1].last_modified > t[2].last_modified}}

\* the compound SELECT of Gutenberg.update; UNION keeps each distinct row once
SelectUpdate(db) ==
  {Task(t[2], COALESCE(t[4].when_downloaded, EmptyStr)) :
     t \in {t \in db.Search \X db.Metadata \X db.DownloadQueries
                    \X (db.Data \cup {NullData}) :
              /\ ParseInt(t[1].key) = t[2].key
              /\ t[4] \in LeftJoinData(db, t[2])
              /\ Match(t[1], t[3].query)
              /\ t[2].last_modified > COALESCE(t[4].last_modified, EmptyStr)}}
  \cup
  {Task(t[1], t[2].when_downloaded) :
     t \in {t \in db.Metadata \X db.Data :
              /\ t[1].key = t[2].key
              /\ t[1].last_modified > t[2].last_modified}}

\* the rows of a result set in key order
RECURSIVE ByKey(_)
ByKey(S) ==
  IF S = {} THEN <<>>
  ELSE LET f == CHOOSE x \in S : \A y \in S : x.key <= y.key
       IN  <<f>> \o ByKey(S \ {f})

\* the rows of a result set without the ORDER BY
ByDownloaded_Unordered(S) == ByKey(S)

\* ORDER BY downloaded
Ordered(p) == \A a, b \in 1..Len(p) : a < b => p[a].downloaded <= p[b].downloaded

RECURSIVE ByDownloaded(_)
ByDownloaded(S) ==
  IF S = {} THEN <<>>
  ELSE LET f == CHOOSE x \in S : \A y \in S :
                   \/ x.downloaded < y.downloaded
                   \/ x.downloaded = y.downloaded /\ x.key <= y.key
       IN  <<f>> \o ByDownloaded(S \ {f})

----------------------------------------------------------------------------
\* One download task in a pool worker

MAX_RETRY == 3

\* Shard that keeps every digit of the id
Shard_AllDigits(key) ==
  IF key < 10 THEN <<0, key>>
  ELSE Append(Digits(key), key)

\* the sharded directory of a book, as path components
Shard(key) ==
  IF key < 10 THEN <<0, key>>
  ELSE Append(SubSeq(Digits(key), 1, Len(Digits(key)) - 1), key)

\* make_book_url with the mirror random.choice picked.  The names that start
\* with "etext" are the legacy names.
make_book_url(mirror, key, name) ==
  IF name.dir # ""
  THEN [mirror |-> mirror, shard |-> <<>>, name |-> name]
  ELSE [mirror |-> mirror, shard |-> Shard(key), name |-> name]

\* get_last_modified with a slop of two days
get_last_modified_TwoDays(resp) == resp.last_modified + 2 * OneDay

\* get_last_modified: the Last-Modified header plus one day
get_last_modified(resp) == resp.last_modified + OneDay

\* the encodings bytes.decode finds a codec for; with any other label it
\* raises LookupError
Codecs == {"us-ascii", "utf-8", "iso-8859-1", "windows-1252", "iso-8859-15"}

LookupError == "LookupError"

\* bytes.decode(enc) succeeds; if not, it raises UnicodeDecodeError.  A body
\* is ASCII text ("ascii"), UTF-8 text with non-ASCII characters ("utf8"), or
\* bytes that are not UTF-8, among them bytes that windows-1252 leaves
\* undefined ("bin").
Decodes(enc, body) ==
  CASE enc = "us-ascii" -> body = "ascii"
    [] enc = "utf-8" -> body \in {"ascii", "utf8"}
    [] enc = "windows-1252" -> body \in {"ascii", "utf8"}
    [] OTHER -> TRUE    \* iso-8859-1 and iso-8859-15 decode every byte

DecodeChain(enc) == <<enc, "utf-8", "iso-8859-1", "windows-1252", "iso-8859-15">>

RECURSIVE FirstDecoding(_, _)
FirstDecoding(encs, body) ==
  IF encs = <<>> THEN NoEncoding
  ELSE IF Head(encs) \notin Codecs THEN LookupError
  ELSE IF Decodes(Head(encs), body) THEN Head(encs)
  ELSE FirstDecoding(Tail(encs), body)

NoResult == [kind |-> "none", key |-> Null, text |-> NullText, url |-> NullUrl,
             last_modified |-> Null]

Raised == [kind |-> "raised", key |-> Null, text |-> NullText, url |-> NullUrl,
           last_modified |-> Null]

\* `if not downloaded or last_mod >= prev_mod:` the body is read
Fresh(prev_mod, downloaded, resp) ==
  downloaded \in {Null, EmptyStr} \/ get_last_modified(resp) >= prev_mod

\* download_ebook_text on a response that arrived: (url, prev_mod, text) or
\* (None, None, None), or the exception that leaves it
download_ebook_text(url, enc, prev_mod, downloaded, resp) ==
  LET used == FirstDecoding(DecodeChain(enc), resp.body)
  IN  IF Fresh(prev_mod, downloaded, resp) /\ used = LookupError
      THEN [url |-> NullUrl, last_modified |-> Null, text |-> NullText,
            raised |-> LookupError]
      ELSE IF Fresh(prev_mod, downloaded, resp) /\ used # NoEncoding
      THEN [url |-> url, last_modified |-> prev_mod,
            text |-> [body |-> resp.body, encoding |-> used], raised |-> ""]
      ELSE [url |-> NullUrl, last_modified |-> Null, text |-> NullText,
            raised |-> ""]

\* download: the result tuple (key, text, url, last_mod), or None.  The text
\* is cleaned, stripped of its boilerplate and compressed; it stays a function
\* of the body received and the encoding that decoded it.
download(task, mirror, resp) ==
  LET r == download_ebook_text(make_book_url(mirror, task.key, task.name),
                               task.encoding, task.last_modified,
                               task.downloaded, resp)
  IN  IF r.raised # "" THEN Raised
      ELSE IF r.url = NullUrl THEN NoResult
      ELSE [kind |-> "data", key |-> task.key, text |-> r.text, url |-> r.url,
            last_modified |-> r.last_modified]

\* the exceptions try_download catches and retries
Caught == {"URLError", "HTTPError", "RemoteDisconnected"}

----------------------------------------------------------------------------
\* The environment: what the program is configured with and what the network
\* can answer

\* what a mirror can answer to one urlopen: an exception, or a response with
\* its Last-Modified header and its body.  The exceptions:
\*   "URLError"           the connection cannot be made (urlopen wraps the
\*                        OSError of the request in a URLError)
\*   "HTTPError"          the mirror answers 404: it has no such file
\*   "RemoteDisconnected" the mirror closes the connection without an answer
\*   "OSError"            the connection is reset or times out while the answer
\*                        or the body is read (ConnectionResetError,
\*                        TimeoutError: not wrapped by urllib)
Response(kind, lm, body) == [kind |-> kind, last_modified |-> lm, body |-> body]

\* one worker, one mirror, the three editions of the catalog; the loop of
\* download_keys keeps up with the worker (eager: the pool works ahead of it)
SmallEnv ==
  [mirrors |-> {"m1"},
   num_workers |-> 1,
   eager |-> FALSE,
   anyorder |-> FALSE,
   raw_queries |-> {<<97>>, <<66>>},
   editions |-> <<1, 2, 5>>,
   max_calls |-> MaxCalls,
   responses |-> {Response("URLError", Null, ""), Response("OSError", Null, ""),
                  Response("ok", 0, "utf8"), Response("ok", 1, "utf8")}]

\* a pool of two workers and two mirrors, the third edition of the catalog
PoolEnv ==
  [mirrors |-> {"m1", "m2"},
   num_workers |-> 2,
   eager |-> TRUE,
   anyorder |-> TRUE,
   raw_queries |-> {<<97>>, <<66>>},
   editions |-> <<3>>,
   max_calls |-> PoolCalls,
   responses |-> {Response("URLError", Null, ""), Response("HTTPError", Null, ""),
                  Response("OSError", Null, ""),
                  Response("ok", 0, "utf8"), Response("ok", 1, "bin")}]

\* one worker, one mirror, the large catalog; a fetch succeeds or raises
BigEnv ==
  [mirrors |-> {"m1"},
   num_workers |-> 1,
   eager |-> FALSE,
   anyorder |-> FALSE,
   raw_queries |-> {<<97>>},
   editions |-> <<4>>,
   max_calls |-> BigCalls,
   responses |-> {Response("OSError", Null, ""), Response("ok", 1, "utf8")}]

\* one worker, one mirror, the catalog whose charsets need the decoding
\* fallback; a fetch is answered with a body of each kind, or fails
DecodeEnv ==
  [mirrors |-> {"m1"},
   num_workers |-> 1,
   eager |-> FALSE,
   anyorder |-> FALSE,
   raw_queries |-> {<<97>>},
   editions |-> <<6>>,
   max_calls |-> DecodeCalls,
   responses |-> {Response("URLError", Null, ""), Response("ok", 1, "ascii"),
                  Response("ok", 1, "utf8"), Response("ok", 1, "bin")}]

\* the archive at CATALOG_URL
Tar == Catalogs[env.editions[archive]]

\* the orders in which a SELECT can return the rows of a result set
Orderings(S, sorted) ==
  IF env.anyorder
  THEN {p \in Perms(S) : sorted => Ordered(p)}
  ELSE {IF sorted THEN ByDownloaded(S) ELSE ByKey(S)}

----------------------------------------------------------------------------
\* History, kept for stating properties only: the call in progress or last
\* made (cur) and, when the call before it was a download that ran to its end,
\* that call (prv)
\*   sel   the keys of the task list
\*   done  the keys whose result was written to Data
\*   lost  the keys whose row a written result displaced
\*   end   "running", "ok", "raised", "cancelled", "killed"

NoCall == [act |-> "none", query |-> <<>>, sel |-> {}, done |-> {}, lost |-> {},
           end |-> "none"]

Snapshot(db) == [Metadata |-> db.Metadata, Search |-> db.Search, Infos |-> db.Infos]

InitHist == [good |-> Snapshot(EmptyDb), cur |-> NoCall, prv |-> NoCall]

Begin(h, act, query, sel) ==
  [h EXCEPT !.prv = IF h.cur.act = "download" /\ h.cur.end = "ok"
                    THEN h.cur ELSE NoCall,
            !.cur = [NoCall EXCEPT !.act = act, !.query = query, !.sel = sel,
                                   !.end = "running"]]

End(h, how) == [h EXCEPT !.cur.end = how]

----------------------------------------------------------------------------
\* Actions

NoBatch ==
  /\ keys' = <<>> /\ taken' = 0 /\ running' = {} /\ outq' = <<>>
  /\ i' = 0 /\ nr' = 0

\* the call of download_keys(keys) that ends download and update, if keys
StartBatch(ks, h) ==
  /\ keys' = ks /\ taken' = 0 /\ running' = {} /\ outq' = <<>>
  /\ i' = 0 /\ nr' = 0
  /\ IF ks = <<>>
     THEN pc' = "idle" /\ hist' = End(h, "ok")
     ELSE pc' = "batch" /\ hist' = h

TaskKeys(ks) == {ks[n].key : n \in 1..Len(ks)}

HasCatalogUpdate(db) == \E r \in db.Infos : r.key = LAST_CATALOG_UPDATE

LastCatalogUpdate(db) == (CHOOSE r \in db.Infos : r.key = LAST_CATALOG_UPDATE).value

\* Gutenberg.__init__: connect, create the schema, refresh the catalog if the
\* store never had one.  A failing refresh leaves no object.
Construct ==
  /\ pc = "closed"
  /\ IF HasCatalogUpdate(disk)
     THEN /\ pc' = "idle"
          /\ UNCHANGED <<disk, conn, hist>>
     ELSE \E fail \in FailPoints(Tar) :
            LET r == update_catalog(disk, Tar, fail, now)
            IN  /\ disk' = r.disk
                /\ conn' = IF r.ok THEN r.conn ELSE r.disk
                /\ pc' = IF r.ok THEN "idle" ELSE "closed"
                /\ hist' = IF r.ok THEN [hist EXCEPT !.good = Snapshot(r.disk)]
                           ELSE hist
  /\ UNCHANGED <<now, archive, env, keys, taken, running, outq, i, nr, calls, call>>

\* the process ends or is killed with a batch running or a transaction
\* pending: the connection is closed without a commit.  (With nothing pending
\* the end of the process changes nothing: the next one finds the store as
\* the connection saw it.)
Exit ==
  /\ pc = "batch" \/ (pc = "idle" /\ conn # disk)
  /\ pc' = "closed"
  /\ conn' = disk
  /\ hist' = IF pc = "batch" THEN End(hist, "killed") ELSE hist
  /\ NoBatch
  /\ UNCHANGED <<disk, now, archive, env, calls, call>>

\* forget without the DELETE
forget_Keep(raw) ==
  /\ pc = "idle"
  /\ calls < env.max_calls
  /\ conn' = conn
  /\ disk' = conn
  /\ hist' = End(Begin(hist, "forget", normalize(raw), {}), "ok")
  /\ calls' = calls + 1
  /\ UNCHANGED <<pc, now, archive, env, keys, taken, running, outq, i, nr, call>>

\* Gutenberg.forget
forget(raw) ==
  /\ pc = "idle"
  /\ calls < env.max_calls
  /\ LET query == normalize(raw)
         db == [conn EXCEPT !.DownloadQueries = {r \in @ : r.query # query}]
     IN  /\ conn' = db
         /\ disk' = db
         /\ hist' = End(Begin(hist, "forget", query, {}), "ok")
  /\ calls' = calls + 1
  /\ UNCHANGED <<pc, now, archive, env, keys, taken, running, outq, i, nr, call>>

\* Gutenberg.download
Gutenberg_download(raw) ==
  /\ pc = "idle"
  /\ calls < env.max_calls
  /\ calls' = calls + 1
  /\ LET query == normalize(raw)
         db == ReplaceQuery(conn, query, now)
         rows == {Task(t[2], t[3].when_downloaded) : t \in SelectDownload(db, query)}
     IN  /\ conn' = db
         /\ disk' = db
         /\ \E ks \in Orderings(rows, FALSE) :
               StartBatch(ks, Begin(hist, "download", query, TaskKeys(ks)))
  /\ UNCHANGED <<now, archive, env, call>>

\* Gutenberg.update
Gutenberg_update ==
  /\ pc = "idle"
  /\ calls < env.max_calls
  /\ calls' = calls + 1
  /\ IF ~HasCatalogUpdate(conn)
     THEN \* fetchone() is None
          /\ hist' = End(Begin(hist, "update", <<>>, {}), "raised")
          /\ NoBatch
          /\ UNCHANGED <<disk, conn, pc>>
     ELSE IF now - OneDay > LastCatalogUpdate(conn)
     THEN \E fail \in FailPoints(Tar) :
            LET r == update_catalog(conn, Tar, fail, now)
            IN  /\ disk' = r.disk
                /\ conn' = r.conn
                /\ IF r.ok
                   THEN \E ks \in Orderings(SelectUpdate(r.conn), TRUE) :
                          StartBatch(ks, Begin([hist EXCEPT !.good = Snapshot(r.disk)],
                                               "update", <<>>, TaskKeys(ks)))
                   ELSE /\ hist' = End(Begin(hist, "update", <<>>, {}), "raised")
                        /\ NoBatch
                        /\ pc' = "idle"
     ELSE /\ UNCHANGED <<disk, conn>>
          /\ \E ks \in Orderings(SelectUpdate(conn), TRUE) :
                StartBatch(ks, Begin(hist, "update", <<>>, TaskKeys(ks)))
  /\ UNCHANGED <<now, archive, env, call>>

\* imap_unordered hands the next task of the list to a free pool worker
WorkerTake ==
  /\ pc = "batch"
  /\ taken < Len(keys)
  /\ Cardinality(running) < env.num_workers
  /\ env.eager \/ outq = <<>>
  /\ running' = running \cup {[idx |-> taken + 1, tries |-> 0, used |-> {}]}
  /\ taken' = taken + 1
  /\ UNCHANGED <<disk, conn, pc, now, archive, env, keys, outq, i, nr, calls, hist, call>>

\* exhausted with `>` for `>=`
exhausted_Late(tries) == tries > MAX_RETRY

\* try_download gives up
exhausted(tries) == tries >= MAX_RETRY

\* one turn of the loop of try_download in a worker: a mirror is chosen, the
\* fetch is answered.  (A KeyboardInterrupt in a worker comes with the one in
\* the main process, see KeyboardInterrupt.)
try_download(w, mirror, resp) ==
  /\ pc = "batch"
  /\ w \in running
  /\ LET task == keys[w.idx]
         used == w.used \cup {mirror}
         Finish(res) ==
           /\ outq' = Append(outq, [res |-> res, task |-> task, resp |-> resp,
                                    attempts |-> w.tries + 1, mirrors |-> used])
           /\ running' = running \ {w}
     IN  IF resp.kind = "ok"
         THEN Finish(download(task, mirror, resp))
         ELSE IF resp.kind \in Caught
         THEN IF exhausted(w.tries)
              THEN Finish(NoResult)
              ELSE /\ running' = (running \ {w}) \cup
                                   {[w EXCEPT !.tries = @ + 1, !.used = used]}
                   /\ UNCHANGED outq
         ELSE \* any other exception leaves try_download
              Finish(Raised)
  /\ UNCHANGED <<disk, conn, pc, now, archive, env, keys, taken, i, nr, calls, hist, call>>

\* DataRow that files the contents under the next key
DataRow_NextKey(res, when) ==
  [key |-> res.key + 1, contents |-> res.text, url |-> res.url,
   last_modified |-> res.last_modified, when_downloaded |-> when]

DataRow(res, when) ==
  [key |-> res.key, contents |-> res.text, url |-> res.url,
   last_modified |-> res.last_modified, when_downloaded |-> when]

\* persist without the INSERT
persist_Nothing(db, data, when) == db

\* persist that drops the stored rows when a task has no result
persist_Clobber(db, data, when) ==
  IF data.kind = "data"
  THEN ReplaceData(db, [key |-> data.key, contents |-> data.text, url |-> data.url,
                        last_modified |-> data.last_modified, when_downloaded |-> when])
  ELSE [db EXCEPT !.Data = {}]

\* `if data:` INSERT OR REPLACE INTO Data
persist(db, data, when) ==
  IF data.kind = "data" THEN ReplaceData(db, DataRow(data, when)) ELSE db

\* `if nr % 10 == 0:` commit
commit_due(n) == n % 10 = 0

\* one turn of the loop of download_keys on the next finished result; the turn
\* that exhausts the iterator also runs the commit after the loop
download_keys ==
  /\ pc = "batch"
  /\ outq # <<>>
  /\ LET data == Head(outq).res IN
     IF data.kind = "raised"
     THEN \* the worker's exception is raised again by the iterator
          /\ pc' = "idle"
          /\ hist' = End(hist, "raised")
          /\ NoBatch
          /\ UNCHANGED <<disk, conn>>
     ELSE
       LET written == persist(conn, data, now)
           nr1 == IF data.kind = "data" THEN nr + 1 ELSE nr
           last == i + 1 = Len(keys)
           commit == (data.kind = "data" /\ commit_due(nr1)) \/ last
           h == IF data.kind = "data"
                THEN [hist EXCEPT !.cur.done = @ \cup {data.key},
                                  !.cur.lost = (@ \cup {r.key : r \in conn.Data \ written.Data})
                                                 \ {data.key}]
                ELSE hist
       IN  /\ conn' = written
           /\ disk' = IF commit THEN written ELSE disk
           /\ IF last
              THEN /\ pc' = "idle" /\ hist' = End(h, "ok") /\ NoBatch
              ELSE /\ pc' = "batch" /\ hist' = h
                   /\ i' = i + 1 /\ nr' = nr1 /\ outq' = Tail(outq)
                   /\ UNCHANGED <<keys, taken, running>>
  /\ UNCHANGED <<now, archive, env, calls, call>>

\* a KeyboardInterrupt that writes the next finished result and commits
KeyboardInterrupt_Drain ==
  /\ pc = "batch"
  /\ pc' = "idle"
  /\ hist' = End(hist, "cancelled")
  /\ NoBatch
  /\ conn' = IF outq # <<>> THEN persist(conn, Head(outq).res, now) ELSE conn
  /\ disk' = conn'
  /\ UNCHANGED <<now, archive, env, calls, call>>

\* the user interrupts the batch: KeyboardInterrupt is raised in the loop of
\* download_keys and in the workers, which die; nothing is committed
KeyboardInterrupt ==
  /\ pc = "batch"
  /\ pc' = "idle"
  /\ hist' = End(hist, "cancelled")
  /\ NoBatch
  /\ UNCHANGED <<disk, conn, now, archive, env, calls, call>>

\* time passes (between the calls: a batch is short of a day)
Tick ==
  /\ pc # "batch"
  /\ now < MaxNow
  /\ now' = now + 1
  /\ UNCHANGED <<disk, conn, pc, archive, env, keys, taken, running, outq, i, nr, calls, hist, call>>

\* Project Gutenberg publishes the next edition of the catalog: one a day at
\* most, the first on the first day
Publish ==
  /\ pc # "batch"
  /\ archive < Len(env.editions)
  /\ archive < now
  /\ archive' = archive + 1
  /\ UNCHANGED <<disk, conn, pc, now, env, keys, taken, running, outq, i, nr, calls, hist, call>>

\* no function is run on its own
NoRun == [fn |-> "none"]

\* a new database file, no process
InitWith(e) ==
  /\ disk = EmptyDb /\ conn = EmptyDb
  /\ pc = "closed" /\ now = 1 /\ archive = 1
  /\ env = e
  /\ keys = <<>> /\ taken = 0 /\ running = {} /\ outq = <<>> /\ i = 0 /\ nr = 0
  /\ calls = 0
  /\ hist = InitHist
  /\ call = NoRun

Init == InitWith(SmallEnv)

InitPool == InitWith(PoolEnv)

InitBig == InitWith(BigEnv)

InitDecode == InitWith(DecodeEnv)

Program ==
  \/ Construct
  \/ Exit
  \/ \E raw \in env.raw_queries : forget(raw)
  \/ \E raw \in env.raw_queries : Gutenberg_download(raw)
  \/ Gutenberg_update
  \/ WorkerTake
  \/ \E w \in running, mirror \in env.mirrors, resp \in env.responses :
        try_download(w, mirror, resp)
  \/ download_keys
  \/ KeyboardInterrupt

\* the program over the days, against the editions of the catalog
Next == Program \/ Tick \/ Publish

Spec == Init /\ [][Next]_vars

\* the program within one day, against one edition of the catalog
SpecPool == InitPool /\ [][Program]_vars

SpecBig == InitBig /\ [][Program]_vars

SpecDecode == InitDecode /\ [][Program]_vars

----------------------------------------------------------------------------
\* The functions that take no store and no network, each run on its own

\* the variables of the program
Program_vars ==
  <<disk, conn, pc, now, archive, env, keys, taken, running, outq, i, nr, calls, hist>>

\* a function is run on one of the inputs `runs`; the program is not started
InitRun(runs) ==
  /\ disk = EmptyDb /\ conn = EmptyDb
  /\ pc = "closed" /\ now = 1 /\ archive = 1
  /\ env = SmallEnv
  /\ keys = <<>> /\ taken = 0 /\ running = {} /\ outq = <<>> /\ i = 0 /\ nr = 0
  /\ calls = 0
  /\ hist = InitHist
  /\ call \in runs

\* remove_boilerplate(text) at its first line.  last_reset is kept for
\* stating properties only: the number of the last line that cleared out
StripRun(text) ==
  [fn |-> "remove_boilerplate", text |-> text, pos |-> 1,
   out |-> <<>>, i |-> 0, footer_found |-> FALSE, ignore_section |-> FALSE,
   last_reset |-> 0, returned |-> FALSE, result |-> <<>>]

\* one turn of the loop of remove_boilerplate
remove_boilerplate ==
  /\ call.fn = "remove_boilerplate"
  /\ call.pos <= TextLen /\ ~call.footer_found
  /\ LET line == LineOf(call.text, call.pos)
         next == [call EXCEPT !.pos = @ + 1]
     IN  IF header_ends(call.i, line)
         THEN call' = [next EXCEPT !.out = <<>>, !.last_reset = call.pos]
         ELSE IF footer_begins(call.i, line)
         THEN call' = [call EXCEPT !.footer_found = TRUE]
         ELSE IF legalese_starts(line)
         THEN call' = [next EXCEPT !.ignore_section = TRUE]
         ELSE IF legalese_ends(line)
         THEN call' = [next EXCEPT !.ignore_section = FALSE]
         ELSE IF ~call.ignore_section
         THEN call' = [next EXCEPT !.out = Append(@, call.pos), !.i = @ + 1]
         ELSE call' = next
  /\ UNCHANGED Program_vars

\* the loop has ended: return "\n".join(out).strip() + "\n"
remove_boilerplate_return ==
  /\ call.fn = "remove_boilerplate"
  /\ call.pos > TextLen \/ call.footer_found
  /\ ~call.returned
  /\ call' = [call EXCEPT !.returned = TRUE, !.result = join_strip(call.text, call.out)]
  /\ UNCHANGED Program_vars

InitStrip == InitRun({StripRun(text) : text \in Texts})

NextStrip == remove_boilerplate \/ remove_boilerplate_return

\* remove_boilerplate on the texts of Texts
SpecStrip == InitStrip /\ [][NextStrip]_vars

\* make_book_url(name, key), before random.choice picks the mirror
UrlRun(key, name) ==
  [fn |-> "make_book_url", key |-> key, name |-> name,
   returned |-> FALSE, url |-> NullUrl]

UrlKeys == 1..MaxKey \cup {11716}

UrlRuns ==
  {UrlRun(key, name) :
     key \in UrlKeys,
     name \in {Legacy} \cup {BookFile(k, suffix) : k \in UrlKeys, suffix \in {".txt", "-0.txt"}}}

\* make_book_url is called and returns
MakeBookUrl ==
  /\ call.fn = "make_book_url" /\ ~call.returned
  /\ \E mirror \in PoolEnv.mirrors :
        call' = [call EXCEPT !.returned = TRUE,
                             !.url = make_book_url(mirror, call.key, call.name)]
  /\ UNCHANGED Program_vars

\* the names a book can have: its own file names and the legacy name
InitUrl == InitRun({r \in UrlRuns : r.name.dir = "" => r.name.stem = r.key})

\* make_book_url on the ids of UrlKeys
SpecUrl == InitUrl /\ [][MakeBookUrl]_vars

\* extract_download_infos(ebook, key) on the file elements of a record
ExtractRun(files, key) ==
  [fn |-> "extract_download_infos", files |-> files, key |-> key,
   returned |-> FALSE, target |-> NoTarget]

\* the book the records are of
ExtractKey == 11716

\* the file elements a record is made of: the plain text renditions
\* <id>.txt and <id>-8.txt in four encodings and of two dates, one that
\* declares no charset, the legacy file, the ZIP archive, <id>.txt.utf-8, and
\* a file of another book
FileEntries ==
  {TextFile(BookFile(ExtractKey, suffix), enc, lm) :
     suffix \in {".txt", "-8.txt"},
     enc \in {"us-ascii", "utf-8", "iso-8859-1", "windows-1252"},
     lm \in {1, 2}}
  \cup {TextFile(BookFile(ExtractKey, "-0.txt"), "", 2),
        TextFile(Legacy, "us-ascii", 1),
        ZipFile(ExtractKey), AutoUtf8File(ExtractKey),
        TextFile(BookFile(ExtractKey + 1, "-8.txt"), "utf-8", 2)}

ExtractRuns ==
  {ExtractRun(files, ExtractKey) :
     files \in UNION {[1..n -> FileEntries] : n \in 0..MaxFiles}}

\* extract_download_infos is called and returns
ExtractDownloadInfos ==
  /\ call.fn = "extract_download_infos" /\ ~call.returned
  /\ call' = [call EXCEPT !.returned = TRUE,
                          !.target = extract_download_infos(call.files, call.key)]
  /\ UNCHANGED Program_vars

InitExtract == InitRun(ExtractRuns)

\* extract_download_infos on the records of up to MaxFiles file elements
SpecExtract == InitExtract /\ [][ExtractDownloadInfos]_vars

\* normalize, run on a string and then on its own result
FoldRun(x) == [fn |-> "normalize", x |-> x, out |-> <<>>]

\* the code points of the strings: space, no-break space, A, e, E acute,
\* sharp s, the two oe ligatures, the combining acute accent
FoldChars == {SPACE, NBSP, 65, 101, 201, 223, 338, 339, COMBINING_ACUTE}

FoldRuns == {FoldRun(x) : x \in UNION {[1..n -> FoldChars] : n \in 0..FoldLen}}

Normalize ==
  /\ call.fn = "normalize"
  /\ Len(call.out) < 2
  /\ call' = [call EXCEPT !.out = Append(@, normalize(IF @ = <<>> THEN call.x
                                                      ELSE @[Len(@)]))]
  /\ UNCHANGED Program_vars

InitFold == InitRun(FoldRuns)

SpecFold == InitFold /\ [][Normalize]_vars

----------------------------------------------------------------------------
\* Properties

\* C1: a catalog refresh is atomic: whatever a refresh does, and however it
\* fails, the committed Metadata rows, Search rows and last-refresh timestamp
\* are those the last successful refresh committed; no committed state has the
\* old rows deleted without the new set and the new timestamp in place.
C1_RefreshAtomic == Snapshot(disk) = hist.good

\* the books a scoped download has to fetch, as the specification words it:
\* the books matching the expression that have no stored content, or whose
\* catalog last_modified is strictly newer than the stored one
C2_Expected(db, query) ==
  {m.key : m \in {m \in db.Metadata :
      /\ \E s \in db.Search : ParseInt(s.key) = m.key /\ Match(s, query)
      /\ \A d \in db.Data : d.key = m.key => m.last_modified > d.last_modified}}

\* C2: the task list of download(query) is exactly the matching books that
\* have no stored content or whose catalog last_modified is strictly newer
\* than the stored content's; no other book is selected.
C2_TaskList ==
  [][calls' = calls + 1 /\ hist'.cur.act = "download" =>
       hist'.cur.sel = C2_Expected(conn', hist'.cur.query)]_vars

\* a download whose task list holds a stale stored book and leaves out a
\* matching stored book whose catalog timestamp equals the stored one
C2_Witness ==
  /\ pc = "batch" /\ hist.cur.act = "download" /\ hist.cur.done = {}
  /\ \E d \in conn.Data, m \in conn.Metadata :
        /\ d.key = m.key /\ m.key \in TaskKeys(keys)
        /\ m.last_modified > d.last_modified
  /\ \E d \in conn.Data, m \in conn.Metadata, s \in conn.Search :
        /\ d.key = m.key /\ ParseInt(s.key) = m.key /\ Match(s, hist.cur.query)
        /\ m.last_modified = d.last_modified
        /\ m.key \notin TaskKeys(keys)

\* two calls of download in a row with the same query, the first run to its end
C3_Twice ==
  /\ hist.cur.act = "download" /\ hist.prv.act = "download"
  /\ hist.prv.end = "ok" /\ hist.prv.query = hist.cur.query

C4_Complete(d) ==
  /\ d.key # Null /\ d.contents # NullText /\ d.url # NullUrl
  /\ d.last_modified # Null /\ d.when_downloaded # Null

\* a step of a worker, and a step of the loop of download_keys on a task that
\* ended without a result, leave the rows of Data as they are; a commit in
\* that step commits rows written before
C4_Step ==
  (\/ pc = "batch" /\ pc' = "batch" /\ running' # running
   \/ download_keys /\ Head(outq).res.kind # "data")
  => /\ conn'.Data = conn.Data
     /\ disk'.Data \in {disk.Data, conn.Data}

\* C4: a task that fails or is abandoned changes no row of Data, the previous
\* row of its book included, and every row of Data ever written has its
\* contents, url, last_modified and when_downloaded together.
C4_FailedTaskNoWrite ==
  /\ [](\A d \in conn.Data \cup disk.Data : C4_Complete(d))
  /\ [][C4_Step]_vars

\* an update has run to its end, the re-download of a stored book ended
\* without a result, and the row stored for the book is still there
C4_Witness ==
  /\ hist.cur.act = "update" /\ hist.cur.end = "ok"
  /\ \E k \in hist.cur.sel \ hist.cur.done :
        \E d \in disk.Data : d.key = k /\ d \in conn.Data /\ C4_Complete(d)

\* the fetch attempts a result in the queue took
C5_Attempts(e) == e.attempts

\* C5: try_download retries a task that fails with a caught network error at
\* most MAX_RETRY times: no task, running or finished, has made more than
\* MAX_RETRY + 1 fetch attempts, and a task whose last attempt failed with
\* such an error ended with no result after exactly MAX_RETRY + 1 attempts.
C5_BoundedRetries ==
  /\ \A w \in running : w.tries <= MAX_RETRY
  /\ \A n \in 1..Len(outq) :
        /\ C5_Attempts(outq[n]) <= MAX_RETRY + 1
        /\ outq[n].resp.kind \in Caught =>
              /\ outq[n].res = NoResult
              /\ C5_Attempts(outq[n]) = MAX_RETRY + 1

\* a task given up after its retries were exhausted, whose attempts went to
\* more than one mirror
C5_Witness ==
  \E n \in 1..Len(outq) :
    /\ outq[n].resp.kind \in Caught /\ outq[n].res = NoResult
    /\ C5_Attempts(outq[n]) = MAX_RETRY + 1
    /\ Cardinality(outq[n].mirrors) > 1

\* the failures of one fetch that are network errors
C6_NetworkErrors == {"URLError", "HTTPError", "RemoteDisconnected", "OSError"}

\* the task behind a result was downloaded before
C6_Prior(e) == e.task.downloaded \notin {Null, EmptyStr}

\* the task behind a result ended in one of the listed failures: a network
\* error (a missing file is HTTPError), a body no decoding accepts, a server
\* copy older than the catalog says
C6_Listed(e) ==
  \/ e.resp.kind \in C6_NetworkErrors
  \/ /\ e.resp.kind = "ok"
     /\ \/ FirstDecoding(DecodeChain(e.task.encoding), e.resp.body) = NoEncoding
        \/ C6_Prior(e) /\ e.resp.last_modified + OneDay < e.task.last_modified

\* C6: task-level failures never escalate: a task that ends in one of the
\* listed failures ends with no result, and with no exception raised.
C6_NeverEscalates ==
  \A n \in 1..Len(outq) : C6_Listed(outq[n]) => outq[n].res = NoResult

\* C7: freshness check: for a task downloaded before, a result is produced
\* only if the server's Last-Modified plus one day is at least the catalog's
\* last_modified, and the task ends with no result (and no exception)
\* otherwise; a task never downloaded before is not abandoned, whatever the
\* server's Last-Modified.
C7_Freshness ==
  \A n \in 1..Len(outq) :
    LET e == outq[n]
        fresh == e.resp.last_modified + OneDay >= e.task.last_modified
    IN  e.resp.kind = "ok" =>
          /\ C6_Prior(e) /\ e.res.kind = "data" => fresh
          /\ C6_Prior(e) /\ ~fresh => e.res = NoResult
          /\ ~C6_Prior(e) => e.res.kind = "data"

\* the re-download of a stored book is abandoned: the mirror's copy is more
\* than a day older than the catalog says
C7_Witness ==
  \E n \in 1..Len(outq) :
    /\ outq[n].resp.kind = "ok" /\ C6_Prior(outq[n])
    /\ outq[n].resp.last_modified + OneDay < outq[n].task.last_modified
    /\ outq[n].res = NoResult

\* C8: a user cancellation aborts the whole batch: in the step that cancels,
\* and for as long as the cancelled call is the last one made, nothing is
\* committed (every committed row stays as it was), no result is written to
\* Data (an exit rolls the uncommitted rows back), and no task or finished
\* result of the batch is left to be processed.
C8_Cancellation ==
  [][hist'.cur.end = "cancelled" =>
       /\ disk' = disk
       /\ conn'.Data \in {conn.Data, disk.Data}
       /\ pc' # "batch" /\ outq' = <<>> /\ running' = {} /\ keys' = <<>>]_vars

\* a batch cancelled with tasks not done, over a store with committed rows
C8_Witness ==
  /\ hist.cur.end = "cancelled" /\ pc = "idle"
  /\ disk.Data # {}
  /\ \E k \in hist.cur.sel \ hist.cur.done : \A d \in conn.Data : d.key # k

\* C9: at every point of a batch fewer than 10 successfully fetched books are
\* written but uncommitted, and after a batch ends normally every successful
\* result is committed.
C9_FewerThanTen ==
  /\ pc = "batch" => Cardinality(conn.Data \ disk.Data) < 10
  /\ hist.cur.end = "ok" /\ pc = "idle" => conn.Data = disk.Data

\* a task that was downloaded before
C10_Redownload(t) == t.downloaded \notin {Null, EmptyStr}

\* C10: in the task list of update() every book with no prior download
\* precedes every re-download of a stored book.
C10_NewFirst ==
  pc = "batch" /\ hist.cur.act = "update" =>
    \A a, b \in 1..Len(keys) :
      ~C10_Redownload(keys[a]) /\ C10_Redownload(keys[b]) => a < b

\* a task list of update() with a book never downloaded and a re-download
C10_Witness ==
  /\ pc = "batch" /\ hist.cur.act = "update"
  /\ \E a, b \in 1..Len(keys) : ~C10_Redownload(keys[a]) /\ C10_Redownload(keys[b])

\* a stored book whose catalog timestamp is newer than the stored one
C11_Stale(db, m) ==
  \E d \in db.Data : d.key = m.key /\ m.last_modified > d.last_modified

\* a book that at least one registered DownloadQuery matches
C11_Matched(db, m) ==
  \E q \in db.DownloadQueries, s \in db.Search :
    ParseInt(s.key) = m.key /\ Match(s, q.query)

\* the books a full refresh has to fetch, as the specification words it
C11_Expected(db) ==
  {m.key : m \in {m \in db.Metadata :
      \/ /\ C11_Matched(db, m)
         /\ C11_Stale(db, m) \/ ~(\E d \in db.Data : d.key = m.key)
      \/ C11_Stale(db, m)}}

\* C11: the task list of update() is exactly the books matching at least one
\* registered DownloadQuery that have no stored content or a catalog timestamp
\* newer than the stored one, together with every stored book whose catalog
\* timestamp is newer than the stored one, matched by a registered query or
\* not; no other book is in the list.
C11_UpdateList ==
  [][calls' = calls + 1 /\ hist'.cur.act = "update" /\ hist'.cur.end # "raised" =>
       hist'.cur.sel = C11_Expected(conn')]_vars

\* a task list of update() with a book never downloaded that a registered
\* query matches, and a stale stored book that no registered query matches
C11_Witness ==
  /\ pc = "batch" /\ hist.cur.act = "update"
  /\ \E m \in conn.Metadata :
        /\ m.key \in TaskKeys(keys) /\ C11_Matched(conn, m)
        /\ \A d \in conn.Data : d.key # m.key
  /\ \E m \in conn.Metadata :
        /\ m.key \in TaskKeys(keys) /\ C11_Stale(conn, m)
        /\ ~C11_Matched(conn, m)

\* the ids of the catalog
C12_CatalogKeys(db) == {m.key : m \in db.Metadata}

\* C12: content is never stored for an id absent from the current catalog:
\* whenever a step inserts or replaces a row of Data, the step is a turn of
\* download_keys and Metadata holds a row for the id of every row written,
\* before and after the write.  (A row that comes back when an exit rolls an
\* uncommitted replacement back is not a write.)
C12_StoredInCatalog ==
  [][\A r \in conn'.Data \ (conn.Data \cup disk.Data) :
        /\ download_keys
        /\ r.key \in C12_CatalogKeys(conn)
        /\ r.key \in C12_CatalogKeys(conn')]_vars

\* the last call has written the row of a book of the catalog, while the row
\* of another book, stored by an earlier call, has no record in the catalog
\* any more
C12_Witness ==
  /\ \E r \in conn.Data :
        r.key \in hist.cur.done /\ r.key \in C12_CatalogKeys(conn)
  /\ \E d \in conn.Data :
        d.key \notin hist.cur.done /\ d.key \notin C12_CatalogKeys(conn)

\* the ids of the search index
C13_SearchKeys(db) == {ParseInt(r.key) : r \in db.Search}

\* the ids of the catalog
C13_MetadataKeys(db) == {m.key : m \in db.Metadata}

\* a step leaves the rows of Metadata and Search of a store as they are
C13_Same(a, b) == a.Metadata = b.Metadata /\ a.Search = b.Search

\* the rows of Metadata and Search change on a connection only in
\* update_catalog (called by the constructor and by update) and when an exit
\* rolls its uncommitted rows back; a commit by another operation commits the
\* two tables as update_catalog left them on the connection
C13_Step ==
  \/ /\ C13_Same(conn', conn)
     /\ C13_Same(disk', disk) \/ C13_Same(disk', conn)
  \/ Construct \/ Gutenberg_update \/ Exit

\* C13: the search index is kept in lockstep with the catalog: in every
\* committed state of the store the ids of Search are the ids of Metadata,
\* and no operation other than update_catalog writes either table.
C13_Lockstep ==
  /\ [](C13_SearchKeys(disk) = C13_MetadataKeys(disk))
  /\ [][C13_Step]_vars

\* a committed store after a download, a refresh that replaced the catalog by
\* one with more books, and a forget
C13_Witness ==
  /\ hist.cur.act = "forget" /\ disk = conn
  /\ disk.Data # {}
  /\ Cardinality(C13_MetadataKeys(disk)) = 3
  /\ C13_SearchKeys(disk) = C13_MetadataKeys(disk)

\* the registered DownloadQueries
C14_Queries(db) == {r.query : r \in db.DownloadQueries}

\* a book of the catalog without a row in Data
C14_NeverDownloaded(db, k) == \A d \in db.Data : d.key # k

\* forget(q) leaves q unregistered, on the connection and in the committed
\* store, and leaves Data, Metadata and Search as the connection saw them
C14_Forget ==
  \A raw \in env.raw_queries :
    calls' = calls + 1 /\ forget(raw) =>
      /\ normalize(raw) \notin C14_Queries(conn') \cup C14_Queries(disk')
      /\ conn'.Data = conn.Data /\ C13_Same(conn', conn)
      /\ disk'.Data = conn.Data /\ C13_Same(disk', conn)

\* a query becomes registered by download(q) only
C14_Registered ==
  \A q \in (C14_Queries(conn') \ C14_Queries(conn))
             \cup (C14_Queries(disk') \ C14_Queries(disk)) :
    \E raw \in env.raw_queries : Gutenberg_download(raw) /\ normalize(raw) = q

\* update() selects a book never downloaded only on account of a query
\* registered when it runs
C14_Update ==
  calls' = calls + 1 /\ hist'.cur.act = "update" =>
    \A k \in hist'.cur.sel :
      C14_NeverDownloaded(conn', k) =>
        \E q \in C14_Queries(conn'), s \in conn'.Search :
          ParseInt(s.key) = k /\ Match(s, q)

\* C14: withdrawing interest: forget(q) leaves q unregistered and leaves
\* Data and the catalog unchanged; q stays unregistered until download(q)
\* registers it again, and an update() selects a book never downloaded only
\* if a query registered at that time matches it, so none on account of q.
C14_Withdraw == [][C14_Forget /\ C14_Registered /\ C14_Update]_vars

\* an update() after download(q) and forget(q): no query is registered, q
\* matches a stored book and a book never downloaded, and the latter is not
\* in the task list
C14_Witness ==
  /\ hist.cur.act = "update" /\ hist.cur.end \in {"running", "ok"}
  /\ conn.DownloadQueries = {}
  /\ \E raw \in env.raw_queries, s, t \in conn.Search :
        /\ Match(s, normalize(raw)) /\ Match(t, normalize(raw))
        /\ ~C14_NeverDownloaded(conn, ParseInt(s.key))
        /\ C14_NeverDownloaded(conn, ParseInt(t.key))
        /\ ParseInt(t.key) \notin hist.cur.sel

\* a step of a pool worker: a task is handed out, a fetch is answered
C15_WorkerStep == pc = "batch" /\ pc' = "batch" /\ running' # running

\* C15: single writer: a step of a worker leaves the store alone; while a
\* batch runs the store is written by the loop of download_keys only (an exit
\* rolls back); and when update() refreshes the catalog and starts a batch,
\* the batch starts on a store where the refreshed catalog is committed, and
\* no step of the batch writes Metadata, Search or Infos.
C15_SingleWriter ==
  [][/\ C15_WorkerStep => UNCHANGED <<disk, conn>>
     /\ pc = "batch" /\ <<disk, conn>>' # <<disk, conn>> => download_keys \/ Exit
     /\ pc = "batch" /\ ~Exit => Snapshot(conn') = Snapshot(conn)
     /\ pc' = "batch" /\ Snapshot(conn') # Snapshot(conn) /\ Gutenberg_update =>
          Snapshot(disk') = Snapshot(conn')]_vars

\* a batch of an update() that refreshed the catalog (the second call, a day
\* or more after a download): the catalog is committed, a result of the batch
\* is written and not yet committed, and a worker is fetching the next book
C15_Witness ==
  /\ pc = "batch" /\ hist.cur.act = "update"
  /\ calls = 2 /\ \E d \in disk.Data : d.when_downloaded < now
  /\ HasCatalogUpdate(conn) /\ LastCatalogUpdate(conn) = now
  /\ Snapshot(disk) = Snapshot(conn)
  /\ hist.cur.done # {} /\ conn.Data # disk.Data
  /\ running # {}

\* the line the loop of remove_boilerplate is at
C16_Line == LineOf(call.text, call.pos)

\* the line starts with a header-end marker
C16_HeaderEnd(line) == StartsAny(line, TEXT_START_MARKERS)

\* a turn of the loop on a line that starts with a header-end marker while
\* i <= 600 clears out and leaves i as it is; out is cleared by such a turn
\* only
C16_Step ==
  remove_boilerplate =>
    IF C16_HeaderEnd(C16_Line) /\ call.i <= 600
    THEN call'.out = <<>> /\ call'.i = call.i /\ call'.last_reset = call.pos
    ELSE call'.last_reset = call.last_reset

\* C16: header reset: every line that starts with a header-end marker while
\* the counter i is <= 600 clears the whole accumulator and is neither
\* emitted nor counted; no line before the last of these lines, nor that
\* line, is in the accumulator afterwards or in the output.
C16_HeaderReset ==
  /\ [](call.fn = "remove_boilerplate" =>
          \A k \in Range(call.out) \cup Range(call.result) : k > call.last_reset)
  /\ [][C16_Step]_vars

\* the output of a text with header-end markers at lines 10 and 30: it
\* starts after line 30
C16_Witness ==
  /\ call.fn = "remove_boilerplate" /\ call.returned
  /\ DOMAIN call.text = {10, 30}
  /\ C16_HeaderEnd(call.text[10]) /\ C16_HeaderEnd(call.text[30])
  /\ call.last_reset = 30
  /\ call.result # <<>> /\ \A k \in Range(call.result) : k > 30

\* the line starts with a footer-start marker
C17_FooterStart(line) == StartsAny(line, TEXT_END_MARKERS)

\* the loop has stopped at a line: the line and the lines after it are not in
\* the output
C17_Cut ==
  call.fn = "remove_boilerplate" /\ call.footer_found =>
    \A k \in Range(call.out) \cup Range(call.result) : k < call.pos

\* C17 as stated: a line that starts with a footer-start marker while the
\* counter i is >= 100 stops the processing, and neither that line nor any
\* later line is in the output.
C17_FooterCut ==
  /\ []C17_Cut
  /\ [][remove_boilerplate /\ C17_FooterStart(C16_Line) /\ call.i >= 100 =>
          call'.footer_found /\ call'.pos = call.pos /\ call'.out = call.out]_vars

\* C17, amended: a line that starts with a footer-start marker while the
\* counter i is >= 100 stops the processing, unless it also starts with a
\* header-end marker and i is <= 600: then it clears the accumulator and the
\* processing goes on.  When the processing stops at a line, neither that
\* line nor any later line is in the output.
C17_FooterCutUnlessHeader ==
  /\ []C17_Cut
  /\ [][remove_boilerplate /\ C17_FooterStart(C16_Line) /\ call.i >= 100 =>
          IF C16_HeaderEnd(C16_Line) /\ call.i <= 600
          THEN ~call'.footer_found /\ call'.pos = call.pos + 1 /\ call'.out = <<>>
          ELSE call'.footer_found /\ call'.pos = call.pos /\ call'.out = call.out]_vars

\* the output of a text with a footer-start marker at line 150: it ends
\* before line 150, the lines after it were not processed
C17_Witness ==
  /\ call.fn = "remove_boilerplate" /\ call.returned
  /\ DOMAIN call.text = {150} /\ call.text[150] = EndLine
  /\ call.footer_found /\ call.pos = 150
  /\ call.result # <<>> /\ \A k \in Range(call.result) : k < 150

\* the number of decimal digits of an id
C18_Width(key) == CHOOSE d \in 1..6 : 10^(d - 1) <= key /\ key < 10^d

\* the shard of an id as the specification words it: 0/<id> below 10,
\* otherwise the decimal digits of the id but the last, then the id
C18_Shard(key) ==
  IF key < 10 THEN <<0, key>>
  ELSE [k \in 1..C18_Width(key) |->
          IF k < C18_Width(key)
          THEN (key \div 10^(C18_Width(key) - k)) % 10
          ELSE key]

\* C18: URL builder: for a file name that is not of the legacy form the url
\* is the mirror, the shard of the id (0/<id> below 10, otherwise the digits
\* of the id except the last, then the id: 5 gives 0/5, 11716 gives
\* 1/1/7/1/11716) and the file name; a legacy file name such as
\* etext96/zncli10.txt follows the mirror with no shard.
C18_UrlBuilder ==
  call.fn = "make_book_url" /\ call.returned =>
    /\ call.url.mirror \in PoolEnv.mirrors
    /\ call.url.name = call.name
    /\ call.url.shard = IF call.name = Legacy THEN <<>> ELSE C18_Shard(call.key)
    /\ call.name # Legacy /\ call.key = 5 => call.url.shard = <<0, 5>>
    /\ call.name # Legacy /\ call.key = 11716 =>
          call.url.shard = <<1, 1, 7, 1, 11716>>

\* the url of 11716-0.txt on a mirror
C18_Witness ==
  /\ call.fn = "make_book_url" /\ call.returned
  /\ call.key = 11716 /\ call.name = BookFile(11716, "-0.txt")
  /\ call.url = [mirror |-> "m2", shard |-> <<1, 1, 7, 1, 11716>>,
                 name |-> BookFile(11716, "-0.txt")]

\* the file entries of the record that survive find_versions
C19_Surviving == Range(find_versions(call.files, call.key, 1, <<>>))

\* the encodings present among them
C19_Encodings == {v.encoding : v \in C19_Surviving}

\* C19: extractor encoding choice: among the surviving file entries of a
\* book, a us-ascii rendition is selected only when us-ascii is the sole
\* encoding present (and then it is); whenever a utf-8 rendition is present a
\* utf-8 rendition is selected; otherwise a rendition in one of the other
\* encodings that are not us-ascii is selected.  The name and the date
\* returned are those of a surviving entry in the selected encoding.
C19_EncodingChoice ==
  call.fn = "extract_download_infos" /\ call.returned /\ C19_Surviving # {} =>
    /\ call.target.encoding = "us-ascii" <=> C19_Encodings = {"us-ascii"}
    /\ "utf-8" \in C19_Encodings => call.target.encoding = "utf-8"
    /\ "utf-8" \notin C19_Encodings /\ C19_Encodings # {"us-ascii"} =>
          call.target.encoding \in C19_Encodings \ {"us-ascii", "utf-8"}
    /\ \E v \in C19_Surviving :
          /\ v.encoding = call.target.encoding
          /\ NameOf(v.url) = call.target.name
          /\ v.last_mod = call.target.last_modified

\* a record with a us-ascii rendition, a more recent latin-1 rendition and
\* an older utf-8 rendition: the utf-8 rendition is selected
C19_Witness ==
  /\ call.fn = "extract_download_infos" /\ call.returned
  /\ {"us-ascii", "utf-8", "iso-8859-1"} \subseteq C19_Encodings
  /\ \E v \in C19_Surviving : v.encoding = "iso-8859-1" /\ v.last_mod = 2
  /\ \A v \in C19_Surviving : v.encoding = "utf-8" => v.last_mod = 1
  /\ call.target.encoding = "utf-8" /\ call.target.last_modified = 1

\* a rendition the site derives from a book: a ZIP archive or <id>.txt.utf-8
C20_Derived(file) ==
  \/ Len(file.formats) # 1
  \/ file.url.file \in {".zip", ".txt.utf-8"}

\* a record whose only file entries are derived renditions
C20_OnlyDerived(m) ==
  m.files # <<>> /\ \A n \in 1..Len(m.files) : C20_Derived(m.files[n])

\* the records of the editions of the catalog
C20_Members ==
  UNION {Range(Catalogs[env.editions[e]]) : e \in 1..Len(env.editions)}

\* C20: extractor discard rule: a book whose only file entries are a ZIP and
\* an auto-generated .txt.utf-8 rendition yields no download target, the
\* ingestor writes no row for a record without a target, and every row of
\* Metadata has a non-empty file name.
C20_DiscardRule ==
  /\ \A m \in C20_Members :
        C20_OnlyDerived(m) =>
          /\ extract_download_infos(m.files, m.key) = NoTarget
          /\ ~parse_xml(m).found
  /\ \A row \in conn.Metadata \cup disk.Metadata :
        /\ row.name # NoFile /\ row.name.file # ""
        /\ \E m \in C20_Members :
              /\ m.key = row.key /\ ~C20_OnlyDerived(m)
              /\ extract_download_infos(m.files, m.key).name = row.name

\* the catalog as refreshed from the first edition: its record of book 3 has
\* a ZIP and a .txt.utf-8 only, and Metadata has the other books only
C20_Witness ==
  /\ pc = "idle" /\ archive = 1 /\ disk.Metadata # {}
  /\ \E n \in 1..Len(Tar) :
        /\ Tar[n].digit /\ C20_OnlyDerived(Tar[n])
        /\ Len(Tar[n].files) = 2
        /\ \A row \in disk.Metadata : row.key # Tar[n].key
  /\ \A n \in 1..Len(Tar) :
        Tar[n].digit /\ ~C20_OnlyDerived(Tar[n]) =>
          \E row \in disk.Metadata : row.key = Tar[n].key

\* C21: normalize is idempotent: run on its own result, it returns that result
\* unchanged, whatever the string it was first run on.
C21_Idempotent ==
  call.fn = "normalize" /\ Len(call.out) = 2 => call.out[2] = call.out[1]

\* C22: the body of a response is decoded with the first encoding that
\* succeeds among the one the catalog declares, UTF-8, Latin-1, Windows-1252
\* and Latin-9, in that order; when none succeeds the task ends with no result;
\* in neither case does the batch end with an exception.
C22_Succeeds(enc, body) == enc \in Codecs /\ Decodes(enc, body)

C22_FirstSuccess(chain, body, enc) ==
  \E j \in 1..Len(chain) :
     /\ chain[j] = enc
     /\ C22_Succeeds(chain[j], body)
     /\ \A k \in 1..(j - 1) : ~C22_Succeeds(chain[k], body)

C22_Decoded(e) ==
  IF \E j \in 1..5 : C22_Succeeds(DecodeChain(e.task.encoding)[j], e.resp.body)
  THEN /\ e.res.kind = "data"
       /\ C22_FirstSuccess(DecodeChain(e.task.encoding), e.resp.body,
                           e.res.text.encoding)
  ELSE e.res.kind = "none"

C22_DecodingFallback ==
  /\ \A n \in 1..Len(outq) :
        /\ outq[n].resp.kind = "ok"
        /\ Fresh(outq[n].task.last_modified, outq[n].task.downloaded, outq[n].resp)
        => C22_Decoded(outq[n])
  /\ hist.cur.end # "raised"

\* a turn of the loop appends its line to out
C23_Emits == call'.out = Append(call.out, call.pos)

\* a turn of the loop: outside its window a marker line has no effect of its
\* own, and i is one more after the turn when the turn appended its line, the
\* same in every other case, the turn that clears out included
C23_Step ==
  remove_boilerplate =>
    /\ C17_FooterStart(C16_Line) /\ call.i < 100 => ~call'.footer_found
    /\ C16_HeaderEnd(C16_Line) /\ call.i > 600 =>
         /\ call'.last_reset = call.last_reset
         /\ call'.out = call.out \/ C23_Emits
    /\ call'.i = IF C23_Emits THEN call.i + 1 ELSE call.i

\* C23: a line that starts with a footer-start marker is no footer while
\* fewer than 100 lines have been counted, so that a text that never has 100
\* counted lines is never cut; a line that starts with a header-end marker
\* does not clear the accumulator once more than 600 lines have been counted;
\* i counts every line ever appended and is not reset when the accumulator is
\* cleared.
C23_Windows ==
  /\ [](call.fn = "remove_boilerplate" =>
          /\ call.footer_found => call.i >= 100
          /\ call.i >= Len(call.out)
          /\ call.last_reset = 0 => call.i = Len(call.out))
  /\ [][C23_Step]_vars

\* the output of a text with a header-end marker at line 10, a footer-start
\* marker at line 30 and a header-end marker at line 620: out was cleared at
\* line 10 only, the two later marker lines are in the output, and i has
\* counted the nine lines cleared as well
C23_Witness ==
  /\ call.fn = "remove_boilerplate" /\ call.returned
  /\ DOMAIN call.text = {10, 30, 620}
  /\ call.text[10] = StartLine /\ call.text[30] = EndLine /\ call.text[620] = StartLine
  /\ ~call.footer_found /\ call.last_reset = 10
  /\ {30, 620} \subseteq Range(call.result)
  /\ call.i = Len(call.out) + 9

\* the line is read while the section is ignored, and is no marker that is
\* acted on
C24_Ignored ==
  /\ call.ignore_section
  /\ ~(C16_HeaderEnd(C16_Line) /\ call.i <= 600)
  /\ ~(C17_FooterStart(C16_Line) /\ call.i >= 100)

\* a turn of the loop and the legalese markers
C24_Step ==
  remove_boilerplate =>
    /\ StartsAny(C16_Line, LEGALESE_START_MARKERS) =>
         /\ call'.ignore_section /\ call'.out = call.out /\ call'.i = call.i
         /\ call'.pos = call.pos + 1
    /\ StartsAny(C16_Line, LEGALESE_END_MARKERS) =>
         /\ ~call'.ignore_section /\ call'.out = call.out /\ call'.i = call.i
         /\ call'.pos = call.pos + 1
    /\ C24_Ignored => call'.out = call.out /\ call'.i = call.i
    /\ call.ignore_section /\ C16_HeaderEnd(C16_Line) /\ call.i <= 600 =>
         call'.out = <<>> /\ call'.last_reset = call.pos
    /\ /\ call.ignore_section /\ C17_FooterStart(C16_Line) /\ call.i >= 100
       /\ ~(C16_HeaderEnd(C16_Line) /\ call.i <= 600)
       => call'.footer_found
    /\ call'.ignore_section # call.ignore_section =>
         StartsAny(C16_Line, LEGALESE_START_MARKERS \cup LEGALESE_END_MARKERS)

\* C24: a line that starts with the legalese-start marker enters ignoring
\* mode and a line that starts with the legalese-end marker leaves it, and
\* both lines are dropped; while ignoring, no line is appended and i does not
\* advance, yet header-end and footer-start markers are acted on inside their
\* windows.
C24_IgnoringMode ==
  /\ [](call.fn = "remove_boilerplate" =>
          \A k \in Range(call.out) \cup Range(call.result) :
             LineOf(call.text, k) \notin {LegaleseStartLine, LegaleseEndLine})
  /\ [][C24_Step]_vars

\* the output of a text with the legalese-start marker at line 10, a
\* header-end marker at line 30 and the legalese-end marker at line 150: the
\* marker at line 30 cleared the nine lines before the legalese, no line from
\* 10 to 150 is in the output, and i has not counted them
C24_Witness ==
  /\ call.fn = "remove_boilerplate" /\ call.returned
  /\ DOMAIN call.text = {10, 30, 150}
  /\ call.text[10] = LegaleseStartLine /\ call.text[30] = StartLine
  /\ call.text[150] = LegaleseEndLine
  /\ ~call.ignore_section /\ call.last_reset = 30
  /\ call.result # <<>> /\ \A k \in Range(call.result) : k > 150
  /\ call.i = 9 + (TextLen - 150)

\* the line starts with a header-end marker and with a footer-start marker
C25_Both(line) ==
  StartsAny(line, TEXT_START_MARKERS) /\ StartsAny(line, TEXT_END_MARKERS)

\* C25: a line that starts with both a header-end marker and a footer-start
\* marker is handled as a header end while i is in the overlap of the two
\* windows (100 <= i <= 600): the accumulator is cleared and the processing
\* goes on; only when i > 600 does such a line stop the processing.
C25_Overlap ==
  [][remove_boilerplate /\ C25_Both(C16_Line) /\ call.i >= 100 =>
       IF call.i > 600
       THEN call'.footer_found /\ call'.last_reset = call.last_reset
       ELSE /\ ~call'.footer_found /\ call'.out = <<>>
            /\ call'.last_reset = call.pos /\ call'.pos = call.pos + 1]_vars

\* the output of a text with a line of both kinds at line 150 and at line
\* 620: the first cleared the accumulator, the second stopped the processing
C25_Witness ==
  /\ call.fn = "remove_boilerplate" /\ call.returned
  /\ DOMAIN call.text = {150, 620}
  /\ C25_Both(call.text[150]) /\ C25_Both(call.text[620])
  /\ call.last_reset = 150 /\ call.footer_found /\ call.pos = 620
  /\ call.result # <<>> /\ \A k \in Range(call.result) : k > 150 /\ k < 620

\* no two tasks of the list are of the same book
C26_Once(ks) == \A a, b \in 1..Len(ks) : ks[a].key = ks[b].key => a = b

\* the books a worker is fetching, and the books fetched whose result waits
C26_InWorkers == {keys[w.idx].key : w \in running}

C26_Fetched == {outq[n].task.key : n \in 1..Len(outq)}

\* the registered queries that match the book
C26_Matching(db, k) ==
  {q \in db.DownloadQueries :
     \E row \in db.Search : ParseInt(row.key) = k /\ Match(row, q.query)}

\* C26: the task list that download(query) and update() hand to
\* download_keys holds each book at most once: a book that matches several
\* registered queries, or that matches one and is a stale downloaded book as
\* well, is one task; no book is fetched twice in one batch.
C26_NoDuplicateTask ==
  /\ C26_Once(keys)
  /\ Cardinality(C26_InWorkers) = Cardinality(running)
  /\ Cardinality(C26_Fetched) = Len(outq)
  /\ C26_InWorkers \cap C26_Fetched = {}
  /\ pc = "batch" => hist.cur.done \cap (C26_InWorkers \cup C26_Fetched) = {}

\* a batch of update() with a book that matches two registered queries and a
\* stale downloaded book that matches a registered query
C26_Witness ==
  /\ pc = "batch" /\ hist.cur.act = "update"
  /\ \E n \in 1..Len(keys) : Cardinality(C26_Matching(conn, keys[n].key)) >= 2
  /\ \E n \in 1..Len(keys) :
        /\ keys[n].downloaded # EmptyStr
        /\ C26_Matching(conn, keys[n].key) # {}

\* the next finished result is a text, that the turn of download_keys writes
C27_Writes == download_keys /\ Head(outq).res.kind = "data"

\* C27: writing the result of task k creates or replaces the row of k in
\* Data and nothing else: every row of another book is in the table after the
\* write as it was before, whatever the store, a store in which the row of
\* another book holds the same url included.
C27_OneRowByKey ==
  [][C27_Writes =>
       /\ \A r \in conn.Data : r.key # Head(outq).res.key => r \in conn'.Data
       /\ \A r \in conn'.Data : r.key # Head(outq).res.key => r \in conn.Data
       /\ \E r \in conn'.Data :
             /\ r = DataRow(Head(outq).res, now)
             /\ \A o \in conn'.Data : o.key = r.key => o = r]_vars

====
